---------------------------- MODULE Spec2Model ----------------------------
(***************************************************************************)
(* ShallowSpeed: the two training entry points of the repository,          *)
(*   src/distributed_MLP/train_MLP_DDP.py   (data + pipeline parallel)     *)
(*   src/distributed_MLP/NN_From_Scratch.py (data parallel only)           *)
(* as one state machine over the MPI ranks of a launch.  The minMLP        *)
(* package the scripts import (Worker, the schedules, Dataset, the models, *)
(* assert_sync) is modelled from spec.md, sections 4.2 to 4.6 and 5.       *)
(*                                                                         *)
(* Tensors are abstracted to integers: a data row i carries the value     *)
(* i*i + 1, the activation of a micro-batch is the sum of its rows'        *)
(* values, the loss gradient of a micro-batch in train_MLP_DDP.py (where   *)
(* all micro-batches have the same size) is its activation, and a          *)
(* parameter is kept in units of lr / (data-parallel width), so that the   *)
(* all-reduced average (sum / W) is the integer sum.  In                   *)
(* NN_From_Scratch.py, where batches differ in size, the loss gradient is  *)
(* the mean over the rows of the batch, kept in units of 1 / GradScale.    *)
(***************************************************************************)
EXTENDS Integers, Sequences, FiniteSets, TLC

(***************************************************************************)
(* Bounds of the model.                                                    *)
(***************************************************************************)
MaxProcs == 4
MaxMicro == 2
MaxEpochs == 1
MaxBatches == 2

\* GLOBAL_BATCH_SIZE is 128 in both scripts; the model draws it from small
\* values with the same kind of divisors (powers of two).
BatchSizes == {4}
Entries == {"train_MLP_DDP", "NN_From_Scratch"}
\* the training set holds MaxBatches global batches and a row left over;
\* NN_From_Scratch.py is also run with one global batch, with a row short
\* and without the row left over, so that its shards can be equal or end in
\* batches of different sizes.
\* The validation set holds one global batch and a row.
TrainSizes(e, gbs) ==
    IF e = "train_MLP_DDP" THEN {MaxBatches * gbs + 1}
    ELSE {gbs} \cup {MaxBatches * gbs + j : j \in {-1, 0, 1}}
ValSizes(gbs) == {gbs + 1}
\* the validation rows the model predicts correctly: all of them, or, in a
\* single-process run of train_MLP_DDP.py, none of them (an accuracy of 0.0;
\* NN_From_Scratch.py prints the accuracy whatever its value is)
CorrectSets(e, n, np) ==
    IF e = "train_MLP_DDP" /\ np = 1 THEN {{}, 0 .. n - 1} ELSE {0 .. n - 1}

VARIABLES
    entry,          \* which script was launched
    nprocs,         \* MPI.COMM_WORLD.size
    DP_tile_factor, \* W
    PP_tile_factor, \* D
    GLOBAL_BATCH_SIZE,
    N_MUBATCHES,
    ntrain,         \* rows of the training set on disk
    nval,           \* rows of the validation set on disk
    correctRows,    \* validation rows whose prediction equals the target
    pc,             \* rank -> position in the script
    dp_comm,        \* rank -> its data-parallel communicator
    pp_comm,        \* rank -> its pipeline communicator
    stage_idx,      \* rank -> model.stage_idx (-1 before the model is built)
    shard,          \* rank -> the rows of its training shard
    param,          \* rank -> the stage's parameter
    grad,           \* rank -> the gradient accumulator
    buffers,        \* rank -> worker.buffers[1], the final layer output
    cache,          \* rank -> micro-batch id -> cached forward activation
    training,       \* rank -> model.train() / model.eval() flag
    chan,           \* <<src, dst>> -> messages sent and not yet received
    epoch,          \* rank -> iteration of the epoch loop
    batch_id,       \* rank -> batch of the running loop
    step,           \* rank -> index of the next step of the schedule
    hist,           \* rank -> every step the rank has executed
    communicated,   \* rank -> took part in a collective or a send/receive
    synced,         \* rank -> outcome of assert_sync
    tally,          \* rank -> correct and total of the running compute_accuracy
    accuracy,       \* rank -> what compute_accuracy returned last
    printed,        \* rank -> the epochs of the accuracy lines it printed
    dirExists,      \* save_dir.is_dir()
    filesWritten    \* the four dataset files are on disk

inputs == <<entry, nprocs, DP_tile_factor, PP_tile_factor, GLOBAL_BATCH_SIZE,
            N_MUBATCHES, ntrain, nval, correctRows>>
topo == <<dp_comm, pp_comm, stage_idx>>
model == <<param, grad, buffers, cache, training>>
loop == <<epoch, batch_id, step>>
disk == <<dirExists, filesWritten>>
report == <<tally, accuracy, printed>>
vars == <<inputs, pc, topo, shard, model, chan, loop, hist, communicated,
          synced, disk, report>>

Ranks == 0 .. nprocs - 1

Min(a, b) == IF a < b THEN a ELSE b

(***************************************************************************)
(* MPI (external library): Comm.Split with the default key orders the      *)
(* members of a colour by their rank in the parent communicator.           *)
(***************************************************************************)
NoComm == [color |-> -1, members |-> {}, rank |-> -1, size |-> 0]

Split(color, r) ==
    LET members == {q \in Ranks : color[q] = color[r]}
    IN  [color |-> color[r],
         members |-> members,
         rank |-> Cardinality({q \in members : q < r}),
         size |-> Cardinality(members)]

\* the member of a communicator with a given rank in it (-1: none)
Member(comm, k) ==
    LET c == {q \in comm.members : Cardinality({p \in comm.members : p < q}) = k}
    IN  IF c = {} THEN -1 ELSE CHOOSE q \in c : TRUE

(***************************************************************************)
(* Python: x[start:stop:step] for 0 <= start, 0 < step, on a sequence.     *)
(***************************************************************************)
Slice(x, start, stop, stride) ==
    LET hi == Min(stop, Len(x))
        n == IF hi <= start THEN 0 ELSE (hi - start + stride - 1) \div stride
    IN  [k \in 1 .. n |-> x[start + (k - 1) * stride + 1]]

\* range(start, stop, stride) as a sequence
Range(start, stop, stride) ==
    LET n == IF stop <= start THEN 0 ELSE (stop - start + stride - 1) \div stride
    IN  [k \in 1 .. n |-> start + (k - 1) * stride]

\* the dataset on disk: row indices 0 .. n-1 in file order
Rows(n) == [i \in 1 .. n |-> i - 1]

\* the value row i stands for
RowValue(i) == i * i + 1

RECURSIVE SumRows(_)
SumRows(x) == IF x = <<>> THEN 0 ELSE RowValue(Head(x)) + SumRows(Tail(x))

RECURSIVE Factorial(_)
Factorial(n) == IF n <= 1 THEN 1 ELSE n * Factorial(n - 1)

\* a multiple of every batch length, so that a mean is an integer
GradScale == Factorial(GLOBAL_BATCH_SIZE)

\* the loss gradient of a batch of NN_From_Scratch.py (mse_loss_grad of
\* minMLP.functional): the mean over the rows of the batch
MeanLossGrad(x) == IF x = <<>> THEN 0 ELSE (GradScale * SumRows(x)) \div Len(x)

SeqToSet(x) == {x[i] : i \in 1 .. Len(x)}


(***************************************************************************)
(* minMLP.pipe.Dataset (spec.md 4.2 and 8.2): load keeps floor(N/S) rows   *)
(* per shard, taken with stride S from offset dp_rank; get_num_batches is  *)
(* the floor of shard length / batch size; a micro-batch is a contiguous   *)
(* slice of batch_size / micro-batch-count rows.                           *)
(***************************************************************************)
DatasetLoad(n, dp_rank, dp_size) ==
    Slice(Rows(n), dp_rank, dp_size * (n \div dp_size), dp_size)

GetNumBatches(rows, bs) == Len(rows) \div bs

LoadMicroBatch(rows, bs, mbs, b, m) ==
    SubSeq(rows, b * bs + m * mbs + 1, b * bs + (m + 1) * mbs)

(***************************************************************************)
(* minMLP.pipe schedules (spec.md 4.4): pure generators of step lists.     *)
(* Training: min(M, D-1-s) warm-up forwards, then one forward / one        *)
(* backward alternating, then the remaining backwards.  Inference: one     *)
(* forward per micro-batch.                                                *)
(***************************************************************************)
Fwd(m) == [op |-> "fwd", mb |-> m]
Bwd(m) == [op |-> "bwd", mb |-> m]

\* a slip: the warm-up not capped by the number of micro-batches
DataParallelScheduleUncappedWarmup(num_micro_batches, num_stages, stage_id) ==
    LET w == IF num_stages - 1 - stage_id < 0 THEN 0
             ELSE num_stages - 1 - stage_id
        warm == [i \in 1 .. w |-> Fwd(i - 1)]
        steady == [i \in 1 .. 2 * (num_micro_batches - w) |->
                     IF i % 2 = 1 THEN Fwd(w + (i - 1) \div 2)
                     ELSE Bwd((i - 2) \div 2)]
        drain == [i \in 1 .. w |-> Bwd(num_micro_batches - w + i - 1)]
    IN  warm \o steady \o drain

DataParallelSchedule(num_micro_batches, num_stages, stage_id) ==
    LET w == IF num_stages - 1 - stage_id < 0 THEN 0
             ELSE Min(num_micro_batches, num_stages - 1 - stage_id)
        warm == [i \in 1 .. w |-> Fwd(i - 1)]
        steady == [i \in 1 .. 2 * (num_micro_batches - w) |->
                     IF i % 2 = 1 THEN Fwd(w + (i - 1) \div 2)
                     ELSE Bwd((i - 2) \div 2)]
        drain == [i \in 1 .. w |-> Bwd(num_micro_batches - w + i - 1)]
    IN  warm \o steady \o drain

InferenceSchedule(num_micro_batches, num_stages, stage_id) ==
    [i \in 1 .. num_micro_batches |-> Fwd(i - 1)]

(***************************************************************************)
(* train_MLP_DDP.py: the values the script computes and passes on.         *)
(***************************************************************************)
IsDDP == entry = "train_MLP_DDP"
IsScratch == entry = "NN_From_Scratch"

\* lines 49-50: the two configuration asserts
ConfigOk ==
    /\ DP_tile_factor * PP_tile_factor = nprocs
    /\ GLOBAL_BATCH_SIZE % DP_tile_factor = 0

\* a slip: the data-parallel colour taken modulo the other tile factor
DpColorByWidth(r) == r % DP_tile_factor

\* line 54: color=MPI.COMM_WORLD.Get_rank() % PP_tile_factor
DpColor(r) == r % PP_tile_factor

\* line 55: color=MPI.COMM_WORLD.Get_rank() // PP_tile_factor
PpColor(r) == r \div PP_tile_factor

\* line 57: the sanity check on the communicator sizes
SanityOk(r) ==
    /\ dp_comm[r].size = DP_tile_factor
    /\ pp_comm[r].size = PP_tile_factor

\* a slip: the model built with the rank in the other communicator
StageIdxFromDpRank(r) == dp_comm[r].rank

\* lines 60-65: MLP(..., stage_idx=pp_comm.rank, n_stages=pp_comm.size, ...)
ModelStageIdx(r) == pp_comm[r].rank

\* line 73: batch_size = GLOBAL_BATCH_SIZE // DP_tile_factor
BatchSize == GLOBAL_BATCH_SIZE \div DP_tile_factor

\* line 74: Dataset(save_dir, batch_size, batch_size // N_MUBATCHES)
MuBatchSize == BatchSize \div N_MUBATCHES

\* line 75: dataset.load(dp_comm.Get_rank(), dp_comm.Get_size())
TrainShard(r) == DatasetLoad(ntrain, dp_comm[r].rank, dp_comm[r].size)

\* lines 78-81: the validation set, whole on every rank, one micro-batch a batch
ValRows == DatasetLoad(nval, 0, 1)

\* a slip: the training worker built like the validation worker
TrainWorkerNoDpComm(r) == NoComm

\* line 76: Worker(dp_comm, pp_comm, model, dataset, optimizer)
TrainWorkerDpComm(r) == dp_comm[r]

\* line 82: Worker(None, pp_comm, model, val_dataset, None)
ValWorkerDpComm(r) == NoComm

\* Worker (spec.md 4.5): stage id and depth are those of the pipeline communicator
WorkerStage(r) == pp_comm[r].rank
WorkerDepth(r) == pp_comm[r].size

\* a slip: validation run with the training schedule
ValScheduleTraining(r) == DataParallelSchedule(1, WorkerDepth(r), WorkerStage(r))

\* lines 23-27: the schedule of one validation batch
ValSchedule(r) == InferenceSchedule(1, WorkerDepth(r), WorkerStage(r))

\* a slip: the stage id counted from the other end of the pipeline
TrainScheduleReversed(r) ==
    DataParallelSchedule(N_MUBATCHES, pp_comm[r].size,
                         pp_comm[r].size - 1 - pp_comm[r].rank)

\* a slip: one micro-batch, as in compute_accuracy
TrainScheduleOneMicroBatch(r) ==
    DataParallelSchedule(1, pp_comm[r].size, pp_comm[r].rank)

\* lines 93-97: the schedule of one training batch
TrainSchedule(r) ==
    DataParallelSchedule(N_MUBATCHES, pp_comm[r].size, pp_comm[r].rank)

\* line 22: range(dataset.get_num_batches()) on the validation set
NumValBatches == GetNumBatches(ValRows, GLOBAL_BATCH_SIZE)

\* a slip: the accuracy computed on the first stage
IsFirstStage(r) == WorkerStage(r) = 0

\* lines 30 and 37: worker.stage_id == worker.pipeline_depth - 1
IsLastStage(r) == WorkerStage(r) = WorkerDepth(r) - 1

\* lines 20-21: correct = 0, total = 0
NoTally == [correct |-> 0, total |-> 0]

\* what a function returns that ends without a return statement
None == <<>>

\* lines 31-34: the rows of validation batch b, the predictions among them
\* that equal the target, and the two counters
ValBatchRows(b) ==
    LoadMicroBatch(ValRows, GLOBAL_BATCH_SIZE, GLOBAL_BATCH_SIZE, b, 0)

CountBatch(t, b) ==
    [correct |-> t.correct
                   + Cardinality(SeqToSet(ValBatchRows(b)) \cap correctRows),
     total |-> t.total + Len(ValBatchRows(b))]

\* lines 37-38: correct / total on the last stage, nothing elsewhere
ReturnedAccuracy(r) ==
    IF IsLastStage(r) THEN <<tally[r].correct, tally[r].total>> ELSE None

\* line 87, `if accuracy:`: None and 0.0 are both false
Truthy(a) == a # None /\ a[1] # 0

\* line 102, `if accuracy is not None:`
IsNotNone(a) == a # None

\* rprint of minMLP.utils (spec.md 3, console reporting): rank 0 only
Rprint(r, out, line) == IF r = 0 THEN Append(out, line) ELSE out

\* line 92: range(0, dataset.get_num_batches()) on the training shard
NumTrainBatches(r) == GetNumBatches(shard[r], BatchSize)

\* minMLP.utils.get_model_hash: a hash of all parameter tensors
ModelHash(r) == param[r]

(***************************************************************************)
(* Messages between adjacent stages and the record of an executed step.    *)
(***************************************************************************)
NoMsg == [kind |-> "none", src |-> -1, dst |-> -1, ph |-> "none",
          ep |-> -1, b |-> -1, mb |-> -1, val |-> 0]

Msg(kind, src, dst, ph, ep, b, mb, val) ==
    [kind |-> kind, src |-> src, dst |-> dst, ph |-> ph,
     ep |-> ep, b |-> b, mb |-> mb, val |-> val]

Inbox(src, dst) == IF <<src, dst>> \in DOMAIN chan THEN chan[<<src, dst>>] ELSE <<>>


(***************************************************************************)
(* The state at launch: mpirun has started nprocs processes of one script. *)
(* The tile factors, the batch size and the micro-batch count are the      *)
(* script's editable constants; N_MUBATCHES divides the per-replica batch. *)
(* NN_From_Scratch.py has no tile factors: its width is the world size.    *)
(***************************************************************************)
Init ==
    /\ entry \in Entries
    /\ nprocs \in 1 .. MaxProcs
    /\ GLOBAL_BATCH_SIZE \in BatchSizes
    /\ ntrain \in TrainSizes(entry, GLOBAL_BATCH_SIZE)
    /\ nval \in ValSizes(GLOBAL_BATCH_SIZE)
    /\ correctRows \in CorrectSets(entry, nval, nprocs)
    /\ IF entry = "train_MLP_DDP"
       THEN /\ DP_tile_factor \in 1 .. MaxProcs
            /\ PP_tile_factor \in 1 .. MaxProcs
            /\ N_MUBATCHES \in 1 .. MaxMicro
            /\ GLOBAL_BATCH_SIZE % DP_tile_factor = 0
                   => (GLOBAL_BATCH_SIZE \div DP_tile_factor) % N_MUBATCHES = 0
            /\ dirExists = TRUE
       ELSE /\ DP_tile_factor = nprocs
            /\ PP_tile_factor = 1
            /\ N_MUBATCHES = 1
            /\ dirExists \in BOOLEAN
    /\ filesWritten = dirExists
    /\ pc = [r \in Ranks |-> "start"]
    /\ dp_comm = [r \in Ranks |-> NoComm]
    /\ pp_comm = [r \in Ranks |-> NoComm]
    /\ stage_idx = [r \in Ranks |-> -1]
    /\ shard = [r \in Ranks |-> <<>>]
    /\ param = [r \in Ranks |-> 0]
    /\ grad = [r \in Ranks |-> 0]
    /\ buffers = [r \in Ranks |-> 0]
    /\ cache = [r \in Ranks |-> [m \in 0 .. N_MUBATCHES - 1 |-> 0]]
    /\ training = [r \in Ranks |-> FALSE]
    /\ chan = [p \in Ranks \X Ranks |-> <<>>]
    /\ epoch = [r \in Ranks |-> 0]
    /\ batch_id = [r \in Ranks |-> 0]
    /\ step = [r \in Ranks |-> 0]
    /\ hist = [r \in Ranks |-> <<>>]
    /\ communicated = [r \in Ranks |-> FALSE]
    /\ synced = [r \in Ranks |-> "unknown"]
    /\ tally = [r \in Ranks |-> NoTally]
    /\ accuracy = [r \in Ranks |-> None]
    /\ printed = [r \in Ranks |-> <<>>]

(***************************************************************************)
(* train_MLP_DDP.py, __main__                                              *)
(***************************************************************************)
\* lines 47-50: the asserts on the tile factors and the batch size
CheckConfig(r) ==
    /\ IsDDP
    /\ pc[r] = "start"
    /\ pc' = [pc EXCEPT ![r] = IF ConfigOk THEN "split_dp" ELSE "error"]
    /\ UNCHANGED <<inputs, report, topo, shard, model, chan, loop, hist, communicated,
                   synced, disk>>

\* line 54: the collective Split that makes the data-parallel communicators
SplitDp ==
    /\ IsDDP
    /\ \A q \in Ranks : pc[q] = "split_dp"
    /\ dp_comm' = [q \in Ranks |-> Split([p \in Ranks |-> DpColor(p)], q)]
    /\ pc' = [q \in Ranks |-> "split_pp"]
    /\ communicated' = [q \in Ranks |-> TRUE]
    /\ UNCHANGED <<inputs, report, pp_comm, stage_idx, shard, model, chan, loop, hist,
                   synced, disk>>

\* line 55: the collective Split that makes the pipeline communicators
SplitPp ==
    /\ IsDDP
    /\ \A q \in Ranks : pc[q] = "split_pp"
    /\ pp_comm' = [q \in Ranks |-> Split([p \in Ranks |-> PpColor(p)], q)]
    /\ pc' = [q \in Ranks |-> "setup"]
    /\ communicated' = [q \in Ranks |-> TRUE]
    /\ UNCHANGED <<inputs, report, dp_comm, stage_idx, shard, model, chan, loop, hist,
                   synced, disk>>

\* lines 57-82: sanity check, model, optimizer, datasets and workers
Setup(r) ==
    /\ IsDDP
    /\ pc[r] = "setup"
    /\ IF SanityOk(r)
       THEN /\ stage_idx' = [stage_idx EXCEPT ![r] = ModelStageIdx(r)]
            /\ training' = [training EXCEPT ![r] = TRUE]
            /\ shard' = [shard EXCEPT ![r] = TrainShard(r)]
            /\ pc' = [pc EXCEPT ![r] = "epoch_top"]
       ELSE /\ pc' = [pc EXCEPT ![r] = "error"]
            /\ UNCHANGED <<stage_idx, training, shard>>
    /\ UNCHANGED <<inputs, report, dp_comm, pp_comm, param, grad, buffers, cache, chan,
                   loop, hist, communicated, synced, disk>>

\* lines 85-86 and 101, and lines 18-21: enter compute_accuracy,
\* model.eval(), correct = 0, total = 0
BeginValidation(r) ==
    /\ IsDDP
    /\ pc[r] = "epoch_top"
    /\ training' = [training EXCEPT ![r] = FALSE]
    /\ batch_id' = [batch_id EXCEPT ![r] = 0]
    /\ step' = [step EXCEPT ![r] = 0]
    /\ pc' = [pc EXCEPT ![r] = "val"]
    /\ tally' = [tally EXCEPT ![r] = NoTally]
    /\ UNCHANGED <<inputs, topo, shard, param, grad, buffers, cache, chan,
                   epoch, hist, communicated, synced, disk, accuracy, printed>>


RECURSIVE SumOver(_, _)
SumOver(f, S) ==
    IF S = {} THEN 0
    ELSE LET q == CHOOSE q \in S : TRUE IN f[q] + SumOver(f, S \ {q})

Event(r, ph, op, mb, rows, rcvd, sent) ==
    [ph |-> ph, ep |-> epoch[r], b |-> batch_id[r], op |-> op, mb |-> mb,
     rows |-> rows, rcvd |-> rcvd, sent |-> sent]

Send(ch, m) ==
    IF <<m.src, m.dst>> \in DOMAIN ch
    THEN [ch EXCEPT ![<<m.src, m.dst>>] = Append(@, m)]
    ELSE ch

Receive(ch, src, dst) == [ch EXCEPT ![<<src, dst>>] = Tail(@)]

(***************************************************************************)
(* Worker.execute (spec.md 4.5), one step of the schedule: a blocking      *)
(* receive from the neighbour (none on the edge stage), the local compute, *)
(* and a buffered send to the other neighbour (none on the edge stage).    *)
(* The gradient buffers are zeroed when a training execute starts.  Called *)
(* from compute_accuracy (line 28) and from the training loop (line 99).   *)
(***************************************************************************)
ExecuteStep(r) ==
    /\ IsDDP
    /\ pc[r] \in {"val", "train"}
    /\ LET ph == pc[r]
           sched == IF ph = "val" THEN ValSchedule(r) ELSE TrainSchedule(r)
           nb == IF ph = "val" THEN NumValBatches ELSE NumTrainBatches(r)
       IN  /\ batch_id[r] < nb
           /\ step[r] < Len(sched)
           /\ LET st == sched[step[r] + 1]
                  s == WorkerStage(r)
                  first == s = 0
                  last == s = WorkerDepth(r) - 1
                  prev == Member(pp_comm[r], s - 1)
                  next == Member(pp_comm[r], s + 1)
                  fwd == st.op = "fwd"
                  rows == IF ~(fwd /\ first) THEN <<>>
                          ELSE IF ph = "val"
                          THEN LoadMicroBatch(ValRows, GLOBAL_BATCH_SIZE,
                                              GLOBAL_BATCH_SIZE, batch_id[r], st.mb)
                          ELSE LoadMicroBatch(shard[r], BatchSize, MuBatchSize,
                                              batch_id[r], st.mb)
                  needsRecv == IF fwd THEN ~first ELSE ~last
                  from == IF fwd THEN prev ELSE next
                  sends == IF fwd THEN ~last ELSE ~first
                  to == IF fwd THEN next ELSE prev
              IN  /\ needsRecv => Inbox(from, r) # <<>>
                  /\ LET in == IF needsRecv THEN Head(Inbox(from, r)) ELSE NoMsg
                         val == IF needsRecv THEN in.val
                                ELSE IF fwd THEN SumRows(rows)
                                ELSE cache[r][st.mb]
                         out == IF sends
                                THEN Msg(IF fwd THEN "act" ELSE "grad", r, to, ph,
                                         epoch[r], batch_id[r], st.mb, val)
                                ELSE NoMsg
                         zeroed == IF ph = "train" /\ step[r] = 0 THEN 0 ELSE grad[r]
                         taken == IF needsRecv THEN Receive(chan, from, r) ELSE chan
                         lastStep == step[r] + 1 = Len(sched)
                     IN  /\ chan' = IF sends THEN Send(taken, out) ELSE taken
                         /\ grad' = [grad EXCEPT ![r] = IF fwd THEN zeroed ELSE zeroed + val]
                         /\ cache' = [cache EXCEPT ![r] =
                                         IF fwd THEN [@ EXCEPT ![st.mb] = val] ELSE @]
                         /\ buffers' = [buffers EXCEPT ![r] = IF fwd /\ last THEN val ELSE @]
                         /\ hist' = [hist EXCEPT ![r] =
                                        Append(@, Event(r, ph, st.op, st.mb, rows, in, out))]
                         /\ communicated' = [communicated EXCEPT ![r] = @ \/ needsRecv \/ sends]
                         /\ IF ~lastStep
                            THEN /\ step' = [step EXCEPT ![r] = @ + 1]
                                 /\ UNCHANGED <<pc, batch_id>>
                            ELSE IF ph = "val"
                            THEN /\ step' = [step EXCEPT ![r] = 0]
                                 /\ batch_id' = [batch_id EXCEPT ![r] = @ + 1]
                                 /\ UNCHANGED pc
                            ELSE /\ step' = [step EXCEPT ![r] = @ + 1]
                                 /\ pc' = [pc EXCEPT ![r] =
                                             IF TrainWorkerDpComm(r) # NoComm
                                             THEN "allreduce" ELSE "opt"]
                                 /\ UNCHANGED batch_id
                         /\ tally' = [tally EXCEPT ![r] =
                                         IF lastStep /\ ph = "val" /\ IsLastStage(r)
                                         THEN CountBatch(@, batch_id[r]) ELSE @]
    /\ UNCHANGED <<inputs, topo, shard, param, training, epoch, synced, disk,
                   accuracy, printed>>

\* a slip: the model left in evaluation mode
ModeLeftInEval == FALSE

\* line 36: model.train() at the end of compute_accuracy
ModeAfterValidation == TRUE

\* lines 36-38 and 87-90 / 101-105: model.train(), the accuracy of the last
\* stage and its line on the console, and the way on: the epoch's training
\* batches or the final check
EndValidation(r) ==
    /\ IsDDP
    /\ pc[r] = "val"
    /\ batch_id[r] = NumValBatches
    /\ training' = [training EXCEPT ![r] = ModeAfterValidation]
    /\ IF IsLastStage(r) /\ tally[r].total = 0
       THEN \* correct / total with total = 0
            /\ pc' = [pc EXCEPT ![r] = "error"]
            /\ UNCHANGED <<loop, accuracy, printed>>
       ELSE /\ accuracy' = [accuracy EXCEPT ![r] = ReturnedAccuracy(r)]
            /\ printed' = [printed EXCEPT ![r] =
                              IF \/ epoch[r] < MaxEpochs /\ Truthy(ReturnedAccuracy(r))
                                 \/ epoch[r] >= MaxEpochs /\ IsNotNone(ReturnedAccuracy(r))
                              THEN Append(@, epoch[r]) ELSE @]
            /\ IF epoch[r] >= MaxEpochs
               THEN /\ pc' = [pc EXCEPT ![r] = "assert_sync"]
                    /\ UNCHANGED loop
               ELSE IF NumTrainBatches(r) > 0
               THEN /\ pc' = [pc EXCEPT ![r] = "train"]
                    /\ batch_id' = [batch_id EXCEPT ![r] = 0]
                    /\ step' = [step EXCEPT ![r] = 0]
                    /\ UNCHANGED epoch
               ELSE /\ pc' = [pc EXCEPT ![r] = "epoch_top"]
                    /\ epoch' = [epoch EXCEPT ![r] = @ + 1]
                    /\ UNCHANGED <<batch_id, step>>
    /\ UNCHANGED <<inputs, topo, shard, param, grad, buffers, cache, chan, hist,
                   communicated, synced, disk, tally>>

\* Worker.execute (spec.md 4.5), after the steps of a training batch: the
\* blocking all-reduce of the accumulated gradients over the data-parallel
\* communicator (sum, divided by its width: see the units of param)
AllReduce(g) ==
    /\ IsDDP
    /\ pc[g] = "allreduce"
    /\ LET members == TrainWorkerDpComm(g).members
           total == SumOver(grad, members)
       IN  /\ \A q \in members : g <= q /\ pc[q] = "allreduce"
           /\ grad' = [q \in Ranks |-> IF q \in members THEN total ELSE grad[q]]
           /\ pc' = [q \in Ranks |-> IF q \in members THEN "opt" ELSE pc[q]]
           /\ hist' = [q \in Ranks |->
                         IF q \in members
                         THEN Append(hist[q], Event(q, "train", "allreduce", -1, <<>>, NoMsg, NoMsg))
                         ELSE hist[q]]
           /\ communicated' = [q \in Ranks |-> communicated[q] \/ q \in members]
    /\ UNCHANGED <<inputs, report, topo, shard, param, buffers, cache, training, chan,
                   loop, synced, disk>>

\* SGD.step (spec.md 4.6), param -= lr * grad, then line 92: the next batch
OptimizerStep(r) ==
    /\ IsDDP
    /\ pc[r] = "opt"
    /\ param' = [param EXCEPT ![r] =
                   @ - (IF TrainWorkerDpComm(r) # NoComm THEN grad[r]
                        ELSE grad[r] * DP_tile_factor)]
    /\ hist' = [hist EXCEPT ![r] =
                   Append(@, Event(r, "train", "step", -1, <<>>, NoMsg, NoMsg))]
    /\ IF batch_id[r] + 1 < NumTrainBatches(r)
       THEN /\ pc' = [pc EXCEPT ![r] = "train"]
            /\ batch_id' = [batch_id EXCEPT ![r] = @ + 1]
            /\ step' = [step EXCEPT ![r] = 0]
            /\ UNCHANGED epoch
       ELSE /\ pc' = [pc EXCEPT ![r] = "epoch_top"]
            /\ epoch' = [epoch EXCEPT ![r] = @ + 1]
            /\ UNCHANGED <<batch_id, step>>
    /\ UNCHANGED <<inputs, report, topo, shard, grad, buffers, cache, training, chan,
                   communicated, synced, disk>>

\* line 108: assert_sync(dp_comm, get_model_hash(model)), a collective of the
\* data-parallel communicator that compares the hashes of its members
AssertSync(g) ==
    /\ IsDDP
    /\ pc[g] = "assert_sync"
    /\ LET members == dp_comm[g].members
           same == \A p, q \in members : ModelHash(p) = ModelHash(q)
       IN  /\ \A q \in members : g <= q /\ pc[q] = "assert_sync"
           /\ synced' = [q \in Ranks |->
                           IF q \in members
                           THEN (IF same THEN "ok" ELSE "diverged")
                           ELSE synced[q]]
           /\ pc' = [q \in Ranks |->
                       IF q \in members
                       THEN (IF same THEN "done" ELSE "error")
                       ELSE pc[q]]
           /\ communicated' = [q \in Ranks |-> communicated[q] \/ q \in members]
    /\ UNCHANGED <<inputs, report, topo, shard, model, chan, loop, hist, disk>>

(***************************************************************************)
(* NN_From_Scratch.py, __main__                                            *)
(***************************************************************************)
\* a slip: the stride without the rank offset
ScratchShardNoOffset(r) == Slice(Rows(ntrain), 0, ntrain, nprocs)

\* lines 78-79: x_train[rank : len(x_train) : size]
ScratchShard(r) == Slice(Rows(ntrain), r, ntrain, nprocs)

\* line 80: assert GLOBAL_BATCH_SIZE % size == 0
ScratchBatchOk == GLOBAL_BATCH_SIZE % nprocs = 0

\* a slip: the global batch size taken as the batch size of a rank
ScratchBatchSizeUndivided == GLOBAL_BATCH_SIZE

\* line 81: batch_size = GLOBAL_BATCH_SIZE // size
ScratchBatchSize == GLOBAL_BATCH_SIZE \div nprocs

\* line 93: range(EPOCHS); one epoch more than train_MLP_DDP.py is given, so
\* that collectives issued in different epochs can meet
ScratchEpochs == MaxEpochs + 1

\* lines 84-87: MLP for one process, Distributed_MLP otherwise
UsesDistributedMLP == nprocs # 1

\* a slip: the loop stops before a batch that is not full
ScratchBatchStartsFullOnly(r) ==
    Range(0, Len(shard[r]) - ScratchBatchSize + 1, ScratchBatchSize)

\* line 100: range(0, len(x_train), batch_size)
ScratchBatchStarts(r) == Range(0, Len(shard[r]), ScratchBatchSize)

\* line 101: x_train[j : min(len(x_train), j + batch_size)]
ScratchBatch(r, j) ==
    Slice(shard[r], j, Min(Len(shard[r]), j + ScratchBatchSize), 1)

\* a slip: zero_grad left out
KeepGrad(g) == g

\* line 108: model.zero_grad()
ZeroGrad(g) == 0

\* lines 61-62: the test of the dataset directory
ScratchIsDir(r) ==
    /\ IsScratch
    /\ pc[r] = "start"
    /\ pc' = [pc EXCEPT ![r] = IF dirExists THEN "read"
                               ELSE IF r = 0 THEN "download" ELSE "barrier"]
    /\ UNCHANGED <<inputs, report, topo, shard, model, chan, loop, hist, communicated,
                   synced, disk>>

\* lines 63-64 and 34-43: rank 0 fetches the data and makes the directory
ScratchMkdir ==
    /\ IsScratch
    /\ pc[0] = "download"
    /\ dirExists' = TRUE
    /\ pc' = [pc EXCEPT ![0] = "write"]
    /\ UNCHANGED <<inputs, report, topo, shard, model, chan, loop, hist, communicated,
                   synced, filesWritten>>

\* lines 44-47: rank 0 writes the four files
ScratchWriteFiles ==
    /\ IsScratch
    /\ pc[0] = "write"
    /\ filesWritten' = TRUE
    /\ pc' = [pc EXCEPT ![0] = "barrier"]
    /\ UNCHANGED <<inputs, report, topo, shard, model, chan, loop, hist, communicated,
                   synced, dirExists>>

\* line 66: comm.Barrier(), left when every rank of the world has entered it
ScratchBarrier ==
    /\ IsScratch
    /\ \A q \in Ranks : pc[q] = "barrier"
    /\ pc' = [q \in Ranks |-> "read"]
    /\ communicated' = [q \in Ranks |-> TRUE]
    /\ UNCHANGED <<inputs, report, topo, shard, model, chan, loop, hist, synced, disk>>

\* lines 70-92: read the files, take the shard, check the batch size, build
\* the model and the optimizer
ScratchLoad(r) ==
    /\ IsScratch
    /\ pc[r] = "read"
    /\ IF ~filesWritten
       THEN /\ pc' = [pc EXCEPT ![r] = "error"]
            /\ UNCHANGED <<shard, training>>
       ELSE /\ shard' = [shard EXCEPT ![r] = ScratchShard(r)]
            /\ IF ScratchBatchOk
               THEN /\ training' = [training EXCEPT ![r] = TRUE]
                    /\ pc' = [pc EXCEPT ![r] = "epoch_top"]
               ELSE /\ pc' = [pc EXCEPT ![r] = "error"]
                    /\ UNCHANGED training
    /\ UNCHANGED <<inputs, report, topo, param, grad, buffers, cache, chan, loop, hist,
                   communicated, synced, disk>>

\* lines 93-99 and 112-117: compute_accuracy (a local forward pass of the
\* validation set) and rprint, then the epoch's batches or the final check
ScratchAccuracy(r) ==
    /\ IsScratch
    /\ pc[r] = "epoch_top"
    /\ hist' = [hist EXCEPT ![r] =
                   Append(@, Event(r, "val", "fwd", 0, Rows(nval), NoMsg, NoMsg))]
    /\ accuracy' = [accuracy EXCEPT ![r] =
                       <<Cardinality(SeqToSet(Rows(nval)) \cap correctRows), nval>>]
    /\ printed' = [printed EXCEPT ![r] = Rprint(r, @, epoch[r])]
    /\ IF epoch[r] >= ScratchEpochs
       THEN /\ pc' = [pc EXCEPT ![r] = "assert_sync"]
            /\ UNCHANGED loop
       ELSE IF ScratchBatchStarts(r) # <<>>
       THEN /\ pc' = [pc EXCEPT ![r] = "fwd"]
            /\ batch_id' = [batch_id EXCEPT ![r] = 0]
            /\ UNCHANGED <<epoch, step>>
       ELSE /\ epoch' = [epoch EXCEPT ![r] = @ + 1]
            /\ UNCHANGED <<pc, batch_id, step>>
    /\ UNCHANGED <<inputs, topo, shard, model, chan, communicated, synced, disk,
                   tally>>

\* lines 101-108: the batch, forward, loss, loss gradient, zero_grad
ScratchForward(r) ==
    /\ IsScratch
    /\ pc[r] = "fwd"
    /\ LET j == ScratchBatchStarts(r)[batch_id[r] + 1]
           x == ScratchBatch(r, j)
       IN  /\ cache' = [cache EXCEPT ![r] = [@ EXCEPT ![0] = MeanLossGrad(x)]]
           /\ buffers' = [buffers EXCEPT ![r] = SumRows(x)]
           /\ grad' = [grad EXCEPT ![r] = ZeroGrad(@)]
           /\ hist' = [hist EXCEPT ![r] =
                          Append(@, Event(r, "train", "fwd", 0, x, NoMsg, NoMsg))]
    /\ pc' = [pc EXCEPT ![r] = "bwd"]
    /\ UNCHANGED <<inputs, report, topo, shard, param, training, chan, loop,
                   communicated, synced, disk>>

\* line 109 with MLP: backward accumulates the local gradient
ScratchBackwardLocal(r) ==
    /\ IsScratch
    /\ ~UsesDistributedMLP
    /\ pc[r] = "bwd"
    /\ grad' = [grad EXCEPT ![r] = @ + cache[r][0]]
    /\ hist' = [hist EXCEPT ![r] =
                   Append(@, Event(r, "train", "bwd", 0, <<>>, NoMsg, NoMsg))]
    /\ pc' = [pc EXCEPT ![r] = "opt"]
    /\ UNCHANGED <<inputs, report, topo, shard, param, buffers, cache, training, chan,
                   loop, communicated, synced, disk>>

\* line 109 with Distributed_MLP (spec.md 4.5): backward all-reduces the
\* gradients over comm, a collective of all ranks
ScratchBackwardAllReduce ==
    /\ IsScratch
    /\ UsesDistributedMLP
    /\ \A q \in Ranks : pc[q] = "bwd"
    /\ LET local == [q \in Ranks |-> grad[q] + cache[q][0]]
           total == SumOver(local, Ranks)
       IN  /\ grad' = [q \in Ranks |-> total]
           /\ hist' = [q \in Ranks |->
                         Append(Append(hist[q],
                                       Event(q, "train", "bwd", 0, <<>>, NoMsg, NoMsg)),
                                Event(q, "train", "allreduce", -1, <<>>, NoMsg, NoMsg))]
    /\ pc' = [q \in Ranks |-> "opt"]
    /\ communicated' = [q \in Ranks |-> TRUE]
    /\ UNCHANGED <<inputs, report, topo, shard, param, buffers, cache, training, chan,
                   loop, synced, disk>>

\* line 110: optimizer.step(), then line 100: the next batch
ScratchStep(r) ==
    /\ IsScratch
    /\ pc[r] = "opt"
    /\ param' = [param EXCEPT ![r] =
                   @ - (IF UsesDistributedMLP THEN grad[r] ELSE grad[r] * nprocs)]
    /\ hist' = [hist EXCEPT ![r] =
                   Append(@, Event(r, "train", "step", -1, <<>>, NoMsg, NoMsg))]
    /\ IF batch_id[r] + 1 < Len(ScratchBatchStarts(r))
       THEN /\ pc' = [pc EXCEPT ![r] = "fwd"]
            /\ batch_id' = [batch_id EXCEPT ![r] = @ + 1]
            /\ UNCHANGED <<epoch, step>>
       ELSE /\ pc' = [pc EXCEPT ![r] = "epoch_top"]
            /\ epoch' = [epoch EXCEPT ![r] = @ + 1]
            /\ UNCHANGED <<batch_id, step>>
    /\ UNCHANGED <<inputs, report, topo, shard, grad, buffers, cache, training, chan,
                   communicated, synced, disk>>

\* line 120: assert_sync(comm, get_model_hash(model)), a collective of all ranks
ScratchAssertSync ==
    /\ IsScratch
    /\ \A q \in Ranks : pc[q] = "assert_sync"
    /\ LET same == \A p, q \in Ranks : ModelHash(p) = ModelHash(q)
       IN  /\ synced' = [q \in Ranks |-> IF same THEN "ok" ELSE "diverged"]
           /\ pc' = [q \in Ranks |-> IF same THEN "done" ELSE "error"]
    /\ communicated' = [q \in Ranks |-> TRUE]
    /\ UNCHANGED <<inputs, report, topo, shard, model, chan, loop, hist, disk>>

NextDDP ==
    \/ \E r \in Ranks : CheckConfig(r)
    \/ SplitDp
    \/ SplitPp
    \/ \E r \in Ranks : Setup(r)
    \/ \E r \in Ranks : BeginValidation(r)
    \/ \E r \in Ranks : ExecuteStep(r)
    \/ \E r \in Ranks : EndValidation(r)
    \/ \E r \in Ranks : AllReduce(r)
    \/ \E r \in Ranks : OptimizerStep(r)
    \/ \E r \in Ranks : AssertSync(r)

NextScratch ==
    \/ \E r \in Ranks : ScratchIsDir(r)
    \/ ScratchMkdir
    \/ ScratchWriteFiles
    \/ ScratchBarrier
    \/ \E r \in Ranks : ScratchLoad(r)
    \/ \E r \in Ranks : ScratchAccuracy(r)
    \/ \E r \in Ranks : ScratchForward(r)
    \/ \E r \in Ranks : ScratchBackwardLocal(r)
    \/ ScratchBackwardAllReduce
    \/ \E r \in Ranks : ScratchStep(r)
    \/ ScratchAssertSync

Next == NextDDP \/ NextScratch

Spec == Init /\ [][Next]_vars


(***************************************************************************)
(* Process topology                                                        *)
(***************************************************************************)
SplitDone == IsDDP /\ \A r \in Ranks : pp_comm[r] # NoComm

AllBuilt == IsDDP /\ \A r \in Ranks : stage_idx[r] >= 0

DpGroups == {dp_comm[r].members : r \in Ranks}

PpGroups == {pp_comm[r].members : r \in Ranks}

\* C3: once both communicators are split (so W * D = process count), no two
\* ranks share the pair (rank in dp_comm, rank in pp_comm), and the
\* data-parallel communicators partition the ranks into exactly D groups of
\* exactly W ranks each.
C3_UniqueCoordinatesAndPartition ==
    SplitDone =>
        /\ \A r, q \in Ranks :
              r # q => <<dp_comm[r].rank, pp_comm[r].rank>>
                         # <<dp_comm[q].rank, pp_comm[q].rank>>
        /\ \A r \in Ranks : dp_comm[r].rank \in 0 .. DP_tile_factor - 1
        /\ \A r \in Ranks : pp_comm[r].rank \in 0 .. PP_tile_factor - 1
        /\ Cardinality(DpGroups) = PP_tile_factor
        /\ \A g \in DpGroups : Cardinality(g) = DP_tile_factor
        /\ \A g, h \in DpGroups : g # h => g \cap h = {}
        /\ \A r \in Ranks : r \in dp_comm[r].members
        /\ UNION DpGroups = Ranks

C3_Witness ==
    SplitDone /\ DP_tile_factor >= 2 /\ PP_tile_factor >= 2

\* C4: once the models are built, every pipeline communicator holds each
\* stage index 0 .. D-1 on exactly one rank, all ranks of a data-parallel
\* communicator hold the same stage index, and all ranks of a pipeline
\* communicator belong to the same replica (equal rank in dp_comm).
C4_StagePerReplica ==
    AllBuilt =>
        /\ \A g \in PpGroups : \A k \in 0 .. PP_tile_factor - 1 :
              Cardinality({q \in g : stage_idx[q] = k}) = 1
        /\ \A r \in Ranks : \A q \in dp_comm[r].members :
              stage_idx[q] = stage_idx[r]
        /\ \A r \in Ranks : \A q \in pp_comm[r].members :
              dp_comm[q].rank = dp_comm[r].rank
        /\ \A r \in Ranks : pp_comm[r].members = {q \in Ranks : q \div PP_tile_factor = r \div PP_tile_factor}
        /\ \A r \in Ranks : dp_comm[r].members = {q \in Ranks : q % PP_tile_factor = r % PP_tile_factor}

C4_Witness ==
    AllBuilt /\ DP_tile_factor >= 2 /\ PP_tile_factor >= 2


(***************************************************************************)
(* Sharding and batching                                                   *)
(***************************************************************************)
RECURSIVE SumLen(_, _)
SumLen(f, S) ==
    IF S = {} THEN 0
    ELSE LET q == CHOOSE q \in S : TRUE IN Len(f[q]) + SumLen(f, S \ {q})

\* every rank of NN_From_Scratch.py has taken its shard and goes on
ScratchSliced ==
    /\ IsScratch
    /\ \A r \in Ranks :
          pc[r] \in {"epoch_top", "fwd", "bwd", "opt", "assert_sync", "done"}

ShardsDisjoint ==
    /\ \A r, q \in Ranks : r # q => SeqToSet(shard[r]) \cap SeqToSet(shard[q]) = {}
    /\ \A r \in Ranks : Cardinality(SeqToSet(shard[r])) = Len(shard[r])

\* C7 as claimed: the shards are pairwise disjoint and together hold exactly
\* the first S * floor(N / S) rows, each once.
C7_UnionIsTruncated ==
    ScratchSliced =>
        /\ ShardsDisjoint
        /\ SumLen(shard, Ranks) = nprocs * (ntrain \div nprocs)
        /\ UNION {SeqToSet(shard[r]) : r \in Ranks}
             = 0 .. nprocs * (ntrain \div nprocs) - 1

\* C7 amended: the shards x[rank : N : size] of NN_From_Scratch.py are
\* pairwise disjoint and together hold all N rows, each once; shard r holds
\* the ceil((N - r) / S) rows r, r + S, r + 2S, ...
C7_UnionIsWholeDataset ==
    ScratchSliced =>
        /\ ShardsDisjoint
        /\ SumLen(shard, Ranks) = ntrain
        /\ UNION {SeqToSet(shard[r]) : r \in Ranks} = 0 .. ntrain - 1
        /\ \A r \in Ranks :
              /\ Len(shard[r]) = (ntrain - r + nprocs - 1) \div nprocs
              /\ \A k \in 1 .. Len(shard[r]) : shard[r][k] = r + (k - 1) * nprocs

C7_Witness ==
    ScratchSliced /\ nprocs >= 2 /\ ntrain % nprocs # 0

\* the training steps a rank has executed in an epoch
TrainIdx(r, e) ==
    {i \in DOMAIN hist[r] : hist[r][i].ph = "train" /\ hist[r][i].ep = e}

BatchIds(r, e) == {hist[r][i].b : i \in TrainIdx(r, e)}

\* the rows a rank has read for batch b of epoch e, in the order read
RECURSIVE RowsRead(_, _, _, _)
RowsRead(r, e, b, n) ==
    IF n = 0 THEN <<>>
    ELSE RowsRead(r, e, b, n - 1)
         \o (IF /\ hist[r][n].op = "fwd" /\ hist[r][n].b = b
                /\ hist[r][n].ep = e /\ hist[r][n].ph = "train"
             THEN hist[r][n].rows ELSE <<>>)

RowsOfBatch(r, e, b) == RowsRead(r, e, b, Len(hist[r]))

\* the ranks that read the dataset: every rank of NN_From_Scratch.py, the
\* first stage of each pipeline of train_MLP_DDP.py
ReadsData(r) == IsScratch \/ WorkerStage(r) = 0

PerRankBatchSize == IF IsDDP THEN BatchSize ELSE ScratchBatchSize

FloorBatches(r) ==
    LET n == Len(shard[r]) \div PerRankBatchSize
    IN  /\ BatchIds(r, 0) = 0 .. n - 1
        /\ ReadsData(r) =>
              \A b \in BatchIds(r, 0) :
                 RowsOfBatch(r, 0, b)
                   = SubSeq(shard[r], b * PerRankBatchSize + 1, (b + 1) * PerRankBatchSize)

CeilBatches(r) ==
    LET n == (Len(shard[r]) + PerRankBatchSize - 1) \div PerRankBatchSize
    IN  /\ BatchIds(r, 0) = 0 .. n - 1
        /\ \A b \in BatchIds(r, 0) :
              RowsOfBatch(r, 0, b)
                = SubSeq(shard[r], b * PerRankBatchSize + 1,
                         Min(Len(shard[r]), (b + 1) * PerRankBatchSize))

\* C8 as claimed: a rank that has finished the batches of epoch 0 has trained
\* on exactly floor(shard length / batch size) batches, each the next
\* batch_size rows of its shard, and on none of the trailing rows.
C8_FloorBatchesOnly ==
    \A r \in Ranks : epoch[r] >= 1 => FloorBatches(r)

\* C8 amended: in NN_From_Scratch.py a rank that has finished the batches of
\* epoch 0 has trained on ceil(shard length / batch size) batches, batch k
\* being the shard's rows from k * batch_size up to the shard's end at most,
\* so that the trailing (shard length mod batch size) rows, when there are
\* any, are the last batch; no row of the shard is dropped.
C8_CeilBatchesInScratch ==
    IsScratch => \A r \in Ranks : epoch[r] >= 1 => CeilBatches(r)

C8_Witness ==
    /\ IsScratch
    /\ \E r \in Ranks :
          /\ epoch[r] >= 1
          /\ Len(shard[r]) % ScratchBatchSize # 0
          /\ Len(RowsOfBatch(r, 0, Len(shard[r]) \div ScratchBatchSize))
               = Len(shard[r]) % ScratchBatchSize

(***************************************************************************)
(* Configuration errors                                                    *)
(***************************************************************************)
ConfigBad == IF IsDDP THEN ~ConfigOk ELSE ~ScratchBatchOk

\* C9 as claimed: under a bad configuration (W * D # process count, or a
\* global batch size the width does not divide) no rank ever takes part in
\* a communication, in either script.
C9_FailFastBeforeCommunication ==
    ConfigBad => \A r \in Ranks : ~communicated[r]


(***************************************************************************)
(* Replica consistency                                                     *)
(***************************************************************************)
\* the ranks a rank averages its gradients with
DpGroupOf(r) == IF IsDDP THEN dp_comm[r].members ELSE Ranks

StepsDone(r) == Cardinality({i \in DOMAIN hist[r] : hist[r][i].op = "step"})

\* C2: two ranks of one data-parallel group that have applied the same number
\* of optimizer steps hold the same parameter, and assert_sync never finds
\* the hashes of a group to differ.
C2_ReplicasInSync ==
    /\ \A r \in Ranks : \A q \in DpGroupOf(r) :
          StepsDone(r) = StepsDone(q) => param[r] = param[q]
    /\ \A r \in Ranks : synced[r] # "diverged"

C2_Witness ==
    \E r \in Ranks : \E q \in DpGroupOf(r) :
       /\ IsDDP
       /\ r # q
       /\ synced[r] = "ok" /\ synced[q] = "ok"
       /\ StepsDone(r) >= 2
       /\ param[r] # 0

(***************************************************************************)
(* The pipeline protocol of a training execute                             *)
(***************************************************************************)
\* the rank is in a training execute at a step that starts with a receive,
\* and the message has not arrived
WaitingInTrainReceive(r) ==
    /\ IsDDP
    /\ pc[r] = "train"
    /\ step[r] < Len(TrainSchedule(r))
    /\ LET st == TrainSchedule(r)[step[r] + 1]
           s == WorkerStage(r)
       IN  IF st.op = "fwd"
           THEN s > 0 /\ Inbox(Member(pp_comm[r], s - 1), r) = <<>>
           ELSE s < WorkerDepth(r) - 1 /\ Inbox(Member(pp_comm[r], s + 1), r) = <<>>

\* C1: while a rank of train_MLP_DDP.py is suspended in a receive or in the
\* all-reduce of a training execute, some rank can take a step; as every step
\* moves a rank forward in its finite script, no run ends with a rank left
\* suspended inside a training execute.
C1_TrainingExecuteNeverStuck ==
    (\E r \in Ranks : WaitingInTrainReceive(r) \/ (IsDDP /\ pc[r] = "allreduce"))
       => ENABLED Next

C1_Witness ==
    /\ PP_tile_factor >= 2
    /\ N_MUBATCHES >= 2
    /\ \E r \in Ranks : WaitingInTrainReceive(r) /\ hist[r] # <<>>
                          /\ hist[r][Len(hist[r])].ph = "train"

\* rank q holds model stage k of the pipeline of rank r
HoldsStage(r, q, k) == q \in pp_comm[r].members /\ stage_idx[q] = k

\* rank q has executed the step (op, micro-batch m) of batch b of epoch e in
\* phase ph and has sent message msg in it
Executed(q, ph, e, b, op, m, msg) ==
    \E j \in DOMAIN hist[q] :
       /\ hist[q][j].sent = msg
       /\ hist[q][j].ph = ph /\ hist[q][j].ep = e /\ hist[q][j].b = b
       /\ hist[q][j].op = op /\ hist[q][j].mb = m

\* the condition under which step i of rank r was executed in order
InOrder(r, i) ==
    LET h == hist[r][i]
        s == stage_idx[r]
    IN  IF h.op = "fwd"
        THEN IF s = 0
             THEN h.rcvd = NoMsg /\ h.rows # <<>>
             ELSE /\ h.rcvd.kind = "act" /\ h.rcvd.dst = r
                  /\ \E q \in Ranks :
                        /\ HoldsStage(r, q, s - 1)
                        /\ Executed(q, h.ph, h.ep, h.b, "fwd", h.mb, h.rcvd)
        ELSE IF s = PP_tile_factor - 1
             THEN /\ h.rcvd = NoMsg
                  /\ \E j \in 1 .. i - 1 :
                        /\ hist[r][j].ph = h.ph /\ hist[r][j].ep = h.ep
                        /\ hist[r][j].b = h.b /\ hist[r][j].op = "fwd"
                        /\ hist[r][j].mb = h.mb
             ELSE /\ h.rcvd.kind = "grad" /\ h.rcvd.dst = r
                  /\ \E q \in Ranks :
                        /\ HoldsStage(r, q, s + 1)
                        /\ Executed(q, h.ph, h.ep, h.b, "bwd", h.mb, h.rcvd)

\* C5: every forward step a rank holding stage s > 0 has executed in training
\* was preceded by the forward step of stage s-1 for that micro-batch, which
\* sent the activation received; every backward step of a stage s < D-1 was
\* preceded by the backward step of stage s+1, which sent the gradient
\* received; stage 0 forwards read the dataset only, and the last stage's
\* backward follows its own forward of that micro-batch.
C5_StepsFollowDependencies ==
    IsDDP =>
       \A r \in Ranks : \A i \in DOMAIN hist[r] :
          hist[r][i].ph = "train" /\ hist[r][i].op \in {"fwd", "bwd"}
             => InOrder(r, i)

C5_Witness ==
    /\ IsDDP
    /\ PP_tile_factor >= 3
    /\ \E r \in Ranks : \E i \in DOMAIN hist[r] :
          /\ stage_idx[r] = 1
          /\ hist[r][i].ph = "train" /\ hist[r][i].op = "bwd" /\ hist[r][i].mb = 1

(***************************************************************************)
(* The inference schedule of a validation pass                             *)
(***************************************************************************)
ValIdx(r, e, b) ==
    {i \in DOMAIN hist[r] :
        hist[r][i].ph = "val" /\ hist[r][i].ep = e /\ hist[r][i].b = b}

\* C6: the inference schedule of M micro-batches is the M forward steps, each
\* once and in order, with no backward step; and in the validation passes run
\* with it a rank executes forward steps only, one per batch once the pass of
\* an epoch is over, each after the forward step of the stage before it (or,
\* on stage 0, from the dataset).
C6_InferenceForwardOnceInOrder ==
    /\ \A m \in 1 .. MaxMicro : \A d \in 1 .. MaxProcs : \A s \in 0 .. d - 1 :
          /\ Len(InferenceSchedule(m, d, s)) = m
          /\ \A k \in 1 .. m : InferenceSchedule(m, d, s)[k] = Fwd(k - 1)
    /\ IsDDP =>
          \A r \in Ranks :
             /\ \A i \in DOMAIN hist[r] :
                   hist[r][i].ph = "val"
                      => /\ hist[r][i].op = "fwd"
                         /\ hist[r][i].mb = 0
                         /\ InOrder(r, i)
             /\ \A e \in 0 .. MaxEpochs : \A b \in 0 .. NumValBatches - 1 :
                   Cardinality(ValIdx(r, e, b)) \in (IF epoch[r] > e THEN {1} ELSE {0, 1})

C6_Witness ==
    /\ IsDDP
    /\ PP_tile_factor >= 3
    /\ \A r \in Ranks : epoch[r] >= 1 /\ Cardinality(ValIdx(r, 0, 0)) = 1

(***************************************************************************)
(* Message accounting of a training execute                                *)
(***************************************************************************)
\* rank r has returned from the training execute of batch b of epoch e
Returned(r, e, b) ==
    \E i \in DOMAIN hist[r] :
       hist[r][i].op = "step" /\ hist[r][i].ep = e /\ hist[r][i].b = b

SentIdx(r, e, b, kind) ==
    {i \in DOMAIN hist[r] :
        /\ hist[r][i].sent.kind = kind
        /\ hist[r][i].b = b /\ hist[r][i].ep = e /\ hist[r][i].ph = "train"}

\* the messages rank r has sent to rank q, in the order sent
SentTo(r, q) ==
    LET s == SelectSeq(hist[r], LAMBDA h : h.sent.dst = q)
    IN  [i \in 1 .. Len(s) |-> s[i].sent]

\* the messages rank q has received from rank r, in the order received
ReceivedFrom(q, r) ==
    LET s == SelectSeq(hist[q], LAMBDA h : h.rcvd.src = r)
    IN  [i \in 1 .. Len(s) |-> s[i].rcvd]

\* every stage of the pipeline of rank r has returned from the training
\* execute of batch b of epoch e
PipelineReturned(r, e, b) == \A q \in pp_comm[r].members : Returned(q, e, b)

\* C10: a rank that has returned from a training execute has sent in it
\* exactly M activations to the next stage (none on the last stage) and
\* exactly M gradients to the previous stage (none on stage 0); the messages
\* a rank has sent to another are, in order, those the other has received
\* from it followed by those in flight, so each is received at most once and
\* by its addressee only, in the step of the same batch and micro-batch; and
\* once all stages of a pipeline have returned from the execute none of its
\* messages is in flight.
C10_MessagesSentAndReceivedOnce ==
    IsDDP =>
       /\ \A r, q \in Ranks :
             /\ SentTo(r, q) = ReceivedFrom(q, r) \o Inbox(r, q)
             /\ \A k \in DOMAIN Inbox(r, q) :
                   Inbox(r, q)[k].ph = "train"
                      => ~PipelineReturned(r, Inbox(r, q)[k].ep, Inbox(r, q)[k].b)
       /\ \A r \in Ranks : \A i \in DOMAIN hist[r] :
             LET h == hist[r][i]
             IN  /\ h.op = "step" =>
                      /\ Cardinality(SentIdx(r, h.ep, h.b, "act"))
                           = (IF WorkerStage(r) < PP_tile_factor - 1
                              THEN N_MUBATCHES ELSE 0)
                      /\ Cardinality(SentIdx(r, h.ep, h.b, "grad"))
                           = (IF WorkerStage(r) > 0 THEN N_MUBATCHES ELSE 0)
                 /\ h.sent # NoMsg =>
                      /\ h.sent.src = r
                      /\ h.sent.dst
                           = Member(pp_comm[r],
                                    IF h.sent.kind = "act"
                                    THEN WorkerStage(r) + 1 ELSE WorkerStage(r) - 1)
                 /\ h.rcvd # NoMsg =>
                      /\ h.rcvd.dst = r
                      /\ h.rcvd.ph = h.ph /\ h.rcvd.ep = h.ep
                      /\ h.rcvd.b = h.b /\ h.rcvd.mb = h.mb

\* W = 1, D = 2, M = 1: one activation from stage 0 to stage 1 and one
\* gradient back, both received, nothing in flight
C10_Witness ==
    /\ IsDDP
    /\ DP_tile_factor = 1 /\ PP_tile_factor = 2 /\ N_MUBATCHES = 1
    /\ Returned(0, 0, 0) /\ Returned(1, 0, 0)
    /\ Cardinality(SentIdx(0, 0, 0, "act")) = 1
    /\ Cardinality(SentIdx(1, 0, 0, "grad")) = 1
    /\ \A p \in DOMAIN chan : chan[p] = <<>>


(***************************************************************************)
(* Data-parallel gradient against the single-replica gradient              *)
(***************************************************************************)
\* every rank of NN_From_Scratch.py holds the all-reduced gradient of its
\* current batch and has not applied it yet
AllReduced ==
    /\ IsScratch /\ UsesDistributedMLP
    /\ \A q \in Ranks : pc[q] = "opt"

\* the batch a rank is at
CurrentBatch(q) == ScratchBatch(q, ScratchBatchStarts(q)[batch_id[q] + 1])

RECURSIVE ConcatBatches(_)
ConcatBatches(S) ==
    IF S = {} THEN <<>>
    ELSE LET q == CHOOSE q \in S : \A p \in S : q <= p
         IN  CurrentBatch(q) \o ConcatBatches(S \ {q})

\* batch b of a single replica: rows b * GLOBAL_BATCH_SIZE onwards of the
\* whole training set (lines 100-101 with size = 1)
GlobalBatch(b) ==
    Slice(Rows(ntrain), b * GLOBAL_BATCH_SIZE,
          Min(ntrain, (b + 1) * GLOBAL_BATCH_SIZE), 1)

AtSameBatch ==
    \A q, r \in Ranks : epoch[q] = epoch[r] /\ batch_id[q] = batch_id[r]

BeforeOrInBarrier(q) == pc[q] \in {"start", "download", "write", "barrier"}

\* C12 as claimed: a rank of NN_From_Scratch.py reads the dataset files only
\* when rank 0 has written them all (they are there from the start when the
\* directory exists at launch), and while a rank waits in the download
\* barrier every other rank is in it or still on its way to it, so that the
\* barrier is entered by all ranks or by none.
C12_ReadAfterDownloadAndBarrierByAll ==
    IsScratch =>
       /\ \A r \in Ranks : pc[r] = "read" => filesWritten
       /\ \A r, q \in Ranks : pc[r] = "barrier" => BeforeOrInBarrier(q)


(***************************************************************************)
(* Matching collectives                                                    *)
(***************************************************************************)
\* the rank has taken its shard of the training set
HasShard(r) ==
    IF IsDDP THEN stage_idx[r] >= 0
    ELSE pc[r] \in {"epoch_top", "fwd", "bwd", "opt", "assert_sync", "done"}

\* the training iterations of a rank in one epoch
TrainIterations(r) ==
    IF IsDDP THEN NumTrainBatches(r) ELSE Len(ScratchBatchStarts(r))

\* the rank is in a collective of its data-parallel group: the all-reduce of
\* the gradients or assert_sync
InGroupCollective(r) ==
    \/ pc[r] = "assert_sync"
    \/ IsDDP /\ pc[r] = "allreduce"
    \/ IsScratch /\ UsesDistributedMLP /\ pc[r] = "bwd"

\* C13 as claimed: the ranks of a data-parallel group run the same number of
\* training iterations per epoch, and no run ends with a rank left in an
\* all-reduce or in assert_sync.
C13_SameIterationsNoBlockedCollective ==
    /\ \A r \in Ranks : \A q \in DpGroupOf(r) :
          HasShard(r) /\ HasShard(q) => TrainIterations(r) = TrainIterations(q)
    /\ (\E r \in Ranks : InGroupCollective(r)) => ENABLED Next


(***************************************************************************)
(* The order of a training batch                                           *)
(***************************************************************************)
\* the steps of kind op that rank q has recorded for batch b of epoch e
OpIdx(q, e, b, op) ==
    {i \in DOMAIN hist[q] :
        /\ hist[q][i].op = op /\ hist[q][i].b = b
        /\ hist[q][i].ep = e /\ hist[q][i].ph = "train"}

\* rank q has run every backward step of batch b of epoch e and then taken
\* part in the all-reduce of that batch
Contributed(q, e, b) ==
    /\ Cardinality(OpIdx(q, e, b, "bwd")) = N_MUBATCHES
    /\ \E j \in OpIdx(q, e, b, "allreduce") :
          \A k \in OpIdx(q, e, b, "fwd") \cup OpIdx(q, e, b, "bwd") : k < j

\* the gradients of rank r are all-reduced: always by the Worker of
\* train_MLP_DDP.py, by Distributed_MLP in NN_From_Scratch.py
GradientsReduced(r) == IsDDP \/ UsesDistributedMLP

\* C14 as claimed: a rank that has applied the optimizer step of batch b has
\* run its forward and backward steps and then the all-reduce of batch b
\* before the step, every rank of its data-parallel group has by then
\* contributed its complete gradient of batch b to that all-reduce, and the
\* optimizer step itself sends and receives nothing.
C14_StepAfterGroupAllReduce ==
    \A r \in Ranks : \A i \in DOMAIN hist[r] :
       hist[r][i].op = "step" =>
          /\ hist[r][i].sent = NoMsg /\ hist[r][i].rcvd = NoMsg
          /\ \A k \in OpIdx(r, hist[r][i].ep, hist[r][i].b, "fwd")
                        \cup OpIdx(r, hist[r][i].ep, hist[r][i].b, "bwd") : k < i
          /\ GradientsReduced(r) =>
                /\ \A j \in OpIdx(r, hist[r][i].ep, hist[r][i].b, "allreduce") : j < i
                /\ \A q \in DpGroupOf(r) :
                      Contributed(q, hist[r][i].ep, hist[r][i].b)


(***************************************************************************)
(* The gradient accumulator                                                *)
(***************************************************************************)
\* the gradient of batch b of the shard of rank q in train_MLP_DDP.py: the
\* sum over the micro-batches of the batch
BatchGrad(q, b) == SumRows(SubSeq(shard[q], b * BatchSize + 1, (b + 1) * BatchSize))

RECURSIVE SumOfBatchGrads(_, _)
SumOfBatchGrads(S, b) ==
    IF S = {} THEN 0
    ELSE LET q == CHOOSE q \in S : TRUE
         IN  BatchGrad(q, b) + SumOfBatchGrads(S \ {q}, b)

RECURSIVE SumOfCurrentGrads(_)
SumOfCurrentGrads(S) ==
    IF S = {} THEN 0
    ELSE LET q == CHOOSE q \in S : TRUE
         IN  MeanLossGrad(CurrentBatch(q)) + SumOfCurrentGrads(S \ {q})

OnlyForwardInValidation(r) ==
    \A i \in DOMAIN hist[r] : hist[r][i].ph = "val" => hist[r][i].op = "fwd"

\* C16: in train_MLP_DDP.py a rank records forward steps only in a validation
\* pass (no backward step, no all-reduce, no optimizer step), the model of a
\* rank is in evaluation mode exactly while the rank is inside
\* compute_accuracy, and no step that enters, runs in or leaves a validation
\* pass changes the rank's parameter or its accumulated gradient.
C16_ValidationChangesNothing ==
    /\ [](IsDDP => \A r \in Ranks :
             /\ OnlyForwardInValidation(r)
             /\ stage_idx[r] >= 0 => (training[r] <=> pc[r] # "val"))
    /\ [][IsDDP => \A r \in Ranks :
             (pc[r] = "val" \/ pc'[r] = "val")
                => param'[r] = param[r] /\ grad'[r] = grad[r]]_vars

\* a validation pass that ran on a trained model has returned
C16_Witness ==
    \E r \in Ranks :
       /\ IsDDP
       /\ pc[r] = "assert_sync"
       /\ param[r] # 0 /\ grad[r] # 0
       /\ training[r]
       /\ \E i \in DOMAIN hist[r] : hist[r][i].ph = "val" /\ hist[r][i].ep >= 1


(***************************************************************************)
(* The shape of the training schedule                                      *)
(***************************************************************************)
\* the positions of step st in the step list sched
Positions(sched, st) == {i \in DOMAIN sched : sched[i] = st}

\* sched holds one forward and one backward step for each of the M
\* micro-batches and nothing else, the forward step before the backward step
OneForwardOneBackward(sched, M) ==
    /\ Len(sched) = 2 * M
    /\ \A m \in 0 .. M - 1 :
          /\ Cardinality(Positions(sched, Fwd(m))) = 1
          /\ Cardinality(Positions(sched, Bwd(m))) = 1
          /\ \A i \in Positions(sched, Fwd(m)) :
                \A j \in Positions(sched, Bwd(m)) : i < j

\* C17: for the micro-batch count M and the pipeline depth D of the launch
\* (every M in 1 .. MaxMicro with every D in 1 .. MaxProcs) and every stage
\* s < D the training schedule holds exactly one forward and one backward
\* step per micro-batch, forward m before backward m, and for M = 1 it is the
\* forward step followed by the backward step; the same holds of the schedule
\* every rank of train_MLP_DDP.py builds for a training batch.
C17_OneForwardOneBackwardPerMicroBatch ==
    /\ \A s \in 0 .. PP_tile_factor - 1 :
          /\ OneForwardOneBackward(
                 DataParallelSchedule(N_MUBATCHES, PP_tile_factor, s), N_MUBATCHES)
          /\ N_MUBATCHES = 1
                => DataParallelSchedule(N_MUBATCHES, PP_tile_factor, s)
                      = <<Fwd(0), Bwd(0)>>
    /\ IsDDP => \A r \in Ranks :
          stage_idx[r] >= 0 =>
             /\ OneForwardOneBackward(TrainSchedule(r), N_MUBATCHES)
             /\ N_MUBATCHES = 1 => TrainSchedule(r) = <<Fwd(0), Bwd(0)>>

\* the first stage of a pipeline with more later stages than micro-batches
\* (the warm-up is cut to the micro-batch count) has consumed the whole
\* schedule of a training batch
C17_Witness ==
    /\ IsDDP
    /\ \E r \in Ranks :
          /\ WorkerStage(r) = 0
          /\ pc[r] = "train" /\ batch_id[r] >= 1 /\ step[r] = 0
          /\ N_MUBATCHES >= 2
          /\ WorkerDepth(r) - 1 > N_MUBATCHES
          /\ Len(SelectSeq(hist[r], LAMBDA e : e.ph = "train")) >= 2 * N_MUBATCHES


(***************************************************************************)
(* The value compute_accuracy returns                                      *)
(***************************************************************************)
\* rank r has returned from the validation pass of epoch e
ValidationReturned(r, e) ==
    \/ epoch[r] > e
    \/ epoch[r] = e /\ pc[r] \in {"train", "allreduce", "opt", "assert_sync", "done"}

\* the validation rows that fall into a batch
ValidatedRows == SubSeq(ValRows, 1, NumValBatches * GLOBAL_BATCH_SIZE)

\* C18: in train_MLP_DDP.py the output buffer of a rank that is not the last
\* stage (stage id D-1) is never written, such a rank counts no prediction
\* and compute_accuracy returns None on it; a rank that has returned from the
\* validation pass of an epoch has executed each validation batch once,
\* whatever its stage, and on the last stage the pass has returned correct /
\* total over the rows of all validation batches.
C18_AccuracyOnLastStageOnly ==
    IsDDP => \A r \in Ranks :
       stage_idx[r] >= 0 =>
          /\ WorkerStage(r) # PP_tile_factor - 1
                => buffers[r] = 0 /\ tally[r] = NoTally /\ accuracy[r] = None
          /\ accuracy[r] # None => WorkerStage(r) = PP_tile_factor - 1
          /\ \A e \in 0 .. MaxEpochs :
                ValidationReturned(r, e) =>
                   /\ \A b \in 0 .. NumValBatches - 1 :
                         Cardinality(ValIdx(r, e, b)) = 1
                   /\ WorkerStage(r) = PP_tile_factor - 1
                         => accuracy[r] =
                               <<Cardinality(SeqToSet(ValidatedRows) \cap correctRows),
                                 Len(ValidatedRows)>>

\* both stages of a pipeline have returned from the final validation pass,
\* the last one with an accuracy read from its written buffer
C18_Witness ==
    /\ IsDDP
    /\ PP_tile_factor >= 2
    /\ \E r, q \in Ranks :
          /\ q \in pp_comm[r].members
          /\ WorkerStage(r) = PP_tile_factor - 1
          /\ WorkerStage(q) = 0
          /\ ValidationReturned(r, MaxEpochs) /\ ValidationReturned(q, MaxEpochs)
          /\ accuracy[r] # None /\ accuracy[r][1] > 0 /\ buffers[r] # 0
          /\ accuracy[q] = None
          /\ Cardinality(ValIdx(q, MaxEpochs, 0)) = 1


(***************************************************************************)
(* The accuracy lines on the console                                       *)
(***************************************************************************)
\* rank r is past the accuracy report of epoch e
Reported(r, e) ==
    IF IsDDP THEN ValidationReturned(r, e)
    ELSE \E i \in DOMAIN hist[r] : hist[r][i].ph = "val" /\ hist[r][i].ep = e

\* the ranks that have printed the accuracy line of epoch e, and how many
\* such lines a rank has printed
PrintersOf(e) == {r \in Ranks : \E i \in DOMAIN printed[r] : printed[r][i] = e}

LinesOf(r, e) == Len(SelectSeq(printed[r], LAMBDA x : x = e))

\* the label of the final report: EPOCHS
FinalEpoch == IF IsDDP THEN MaxEpochs ELSE ScratchEpochs

\* C19: no rank but rank 0 prints an accuracy line, and once every rank is
\* past the accuracy report of an epoch (the final report included) exactly
\* one line has been printed for that epoch, by rank 0.
C19_OneLinePerEpochByRankZero ==
    /\ \A r \in Ranks : r # 0 => printed[r] = <<>>
    /\ \A e \in 0 .. FinalEpoch :
          (\A r \in Ranks : Reported(r, e))
             => PrintersOf(e) = {0} /\ LinesOf(0, e) = 1

=============================================================================
